---- MODULE Spec2Model ----
(***************************************************************************)
(* A model of the generic binary min-heap of src/heap.go: the array-backed *)
(* engine (heap[E]: up, down, Push, Pop, Peek, Remove, Fix, Init, Queue)   *)
(* and the Concurrent decorator (conHeap[E]).                              *)
(*                                                                         *)
(* Go indices are kept: index i of the slice h.e is s[i+1] of the TLA+     *)
(* sequence s, and el(s, i) reads it.                                      *)
(***************************************************************************)
EXTENDS Integers, Sequences, FiniteSets, Bags, TLC

VARIABLES
    e,          \* heap.e, the slice of the one underlying heap
    lastOp,     \* the last call made on the heap
    ret,        \* what that call returned (NoRet when it returns nothing)
    len0,       \* where calls are counted: Len() right after New
    pushes,     \* where calls are counted: Push calls so far
    removes,    \* where calls are counted: Pop and Remove calls so far
    handle,     \* the Heap[E] value the caller holds: 0 is the *heap[E]
    conHeaps,   \* the *conHeap[E] objects allocated, by id 1, 2, ...
    wraps,      \* number of Concurrent calls so far
    out,        \* the elements popped from the heap so far, in order
    toPush,     \* the elements still to push onto the second heap
    e2,         \* the slice of the second heap, built by Push alone
    out2,       \* the elements popped from the second heap so far
    e0,         \* the slice of the heap when Queue() was called
    qpc,        \* where the function returned by Queue() stands
    pops,       \* number of Pop calls made by that function
    stoppedAt,  \* elements received when the consumer's yield returned
                \* false, -1 before
    pc,         \* per concurrent caller: the statement it is about to run
    loc,        \* per concurrent caller: its local variables
    before,     \* the slice when the last call was made (for Fix: after the
                \* caller overwrote the element)
    at,         \* the index given to the last call, -2 when it takes none
    held,       \* the multiset given to New, plus the elements pushed, minus
                \* the elements returned by Pop and Remove
    dn          \* the variables of one run of down(i0, n)

vars == <<e, lastOp, ret, len0, pushes, removes, handle, conHeaps, wraps,
          out, toPush, e2, out2, e0, qpc, pops, stoppedAt, pc, loc,
          before, at, held, dn>>

\* ------------------------------------------------------------------ bounds
\* Largest key of an element.
MaxKey == 2
\* Longest slice the heap holds (Push is not offered beyond it).
MaxLen == 6
\* Width in bits of the signed integers used for indices.
IntWidth == 8
\* Longest slice given to New where the calls are counted.
MaxLen0 == 2
\* Most Push calls in a run where the calls are counted.
MaxPushes == 2
\* Most calls of Concurrent in one run.
MaxWraps == 2
\* Longest slice given to New where the heap is drained.
MaxSortLen == 4
\* Number of goroutines that call the wrapped heap.
NumCallers == 2
\* Longest slice at which a concurrent caller still calls Push.
MaxConLen == 2

\* ---------------------------------------------------------------- elements
\* The element type E and the comparator are the caller's.  Elements are
\* (key, tag) pairs compared by key alone: a strict weak ordering in which
\* distinct elements can be equivalent.
Keys == 1 .. MaxKey
Tags == {"a", "b"}
E == Keys \X Tags

\* heap.l, the less function given to New: func(a, b T) bool { return a < b }
\* on the key.
l(a, b) == a[1] < b[1]

\* --------------------------------------------------------------- integers
MinInt == -(2 ^ (IntWidth - 1))
\* Signed wrap-around of an int computation.
WrapInt(x) == ((x - MinInt) % (2 ^ IntWidth)) + MinInt
\* Go's integer division truncates toward zero.
Quo(a, b) == IF a >= 0 THEN a \div b ELSE -((-a) \div b)

\* ------------------------------------------------------------ heap engine
\* h.el(i)
el(s, i) == s[i + 1]

\* A comparison that also holds between elements of equal key.
lessOrEqual(s, i, j) == ~l(el(s, j), el(s, i))

\* h.less(i, j)
less(s, i, j) == l(el(s, i), el(s, j))

\* A swap that copies the element at j over the one at i and keeps j.
swapCopies(s, i, j) == [s EXCEPT ![i + 1] = s[j + 1]]

\* h.swap(i, j)
swap(s, i, j) == [s EXCEPT ![i + 1] = s[j + 1], ![j + 1] = s[i + 1]]

\* A sift-up that stops after one swap.
upOneStep(s, j) ==
    LET i == Quo(j - 1, 2)
    IN  IF i = j \/ ~less(s, j, i) THEN s ELSE swap(s, i, j)

\* h.up(j): the slice after the loop.
RECURSIVE up(_, _)
up(s, j) ==
    LET i == Quo(j - 1, 2)
    IN  IF i = j \/ ~less(s, j, i) THEN s ELSE up(swap(s, i, j), i)

\* A sift-down that never looks at the right child.
RECURSIVE downLoopLeftOnly(_, _, _)
downLoopLeftOnly(s, i, n) ==
    LET j1 == WrapInt(2 * i + 1)
    IN  IF j1 >= n \/ j1 < 0
        THEN [e |-> s, i |-> i]
        ELSE IF ~less(s, j1, i)
             THEN [e |-> s, i |-> i]
             ELSE downLoopLeftOnly(swap(s, i, j1), j1, n)

\* The loop of h.down(i0, n) from index i: the slice and the final i.
RECURSIVE downLoop(_, _, _)
downLoop(s, i, n) ==
    LET j1 == WrapInt(2 * i + 1)
    IN  IF j1 >= n \/ j1 < 0
        THEN [e |-> s, i |-> i]
        ELSE LET j2 == j1 + 1
                 j  == IF j2 < n /\ less(s, j2, j1) THEN j2 ELSE j1
             IN  IF ~less(s, j, i)
                 THEN [e |-> s, i |-> i]
                 ELSE downLoop(swap(s, i, j), j, n)

\* h.down(i0, n): the slice and the returned bool (i > i0).
down(s, i0, n) ==
    LET r == downLoop(s, i0, n)
    IN  [e |-> r.e, moved |-> r.i > i0]

\* A heapify loop that runs while i > 0 and so never sifts the root.
RECURSIVE initLoopStopsAtOne(_, _, _)
initLoopStopsAtOne(s, i, n) ==
    IF i > 0 THEN initLoopStopsAtOne(down(s, i, n).e, i - 1, n) ELSE s

\* Init(h): down(i, n) for i = n/2 - 1 down to 0.
RECURSIVE initLoop(_, _, _)
initLoop(s, i, n) ==
    IF i >= 0 THEN initLoop(down(s, i, n).e, i - 1, n) ELSE s

\* Init(h)
Heapify(s) == initLoop(s, Quo(Len(s), 2) - 1, Len(s))

\* New(e, less): the slice of the heap returned.
New(input) == Heapify(input)

\* h.Push(x)
Push(s, x) ==
    LET s1 == Append(s, x)
    IN  up(s1, Len(s1) - 1)

\* h.Peek()
Peek(s) == el(s, Len(s) - 1)

\* A pop that returns the last element and leaves the slice as long as it was.
popKeepsLen(s) == [e |-> s, ret |-> Peek(s)]

\* h.pop(): the shortened slice and the element returned.
pop(s) == [e |-> SubSeq(s, 1, Len(s) - 1), ret |-> Peek(s)]

\* A Pop that does not sift the swapped-in root down.
PopSkipsDown(s) ==
    LET n == Len(s) - 1
    IN  pop(swap(s, 0, n))

\* h.Pop()
Pop(s) ==
    LET n == Len(s) - 1
    IN  pop(down(swap(s, 0, n), 0, n).e)

\* A Remove that sifts down only, without the sift-up fallback.
RemoveDownOnly(s, i) ==
    LET n == Len(s) - 1
    IN  IF n # i
        THEN pop(down(swap(s, i, n), i, n).e)
        ELSE pop(s)

\* A Remove that drops the last element without swapping index i there.
RemoveLast(s, i) == pop(s)

\* h.Remove(i)
Remove(s, i) ==
    LET n == Len(s) - 1
    IN  IF n # i
        THEN LET d == down(swap(s, i, n), i, n)
             IN  pop(IF ~d.moved THEN up(d.e, i) ELSE d.e)
        ELSE pop(s)

\* A Fix that sifts down only, without the sift-up fallback.
FixDownOnly(s, i) == down(s, i, Len(s)).e

\* h.Fix(i)
Fix(s, i) ==
    LET d == down(s, i, Len(s))
    IN  IF ~d.moved THEN up(d.e, i) ELSE d.e

\* ------------------------------------------------------------------ helpers
\* The slices a caller can hand to New.
Inputs == UNION {[1 .. n -> E] : n \in 0 .. MaxLen}

\* The multiset of the elements of a slice.
BagOf(s) == [x \in {s[i] : i \in 1 .. Len(s)} |-> Cardinality({i \in 1 .. Len(s) : s[i] = x})]

\* The binary min-heap property of a slice.
HeapOrdered(s) ==
    \A i \in 0 .. Len(s) - 1 :
        \A c \in {2 * i + 1, 2 * i + 2} :
            c < Len(s) => ~less(s, c, i)

\* A sequence of elements is non-decreasing under the comparator.
NonDecreasing(s) == \A i \in 1 .. Len(s) - 1 : ~l(s[i + 1], s[i])

\* A call that returns no element.
NoRet == <<0, "none">>

\* --------------------------------------------------------------- decorator
\* A Concurrent without the type assertion: it wraps whatever it is given.
ConcurrentAlwaysWraps(ref, objs) ==
    LET id == Cardinality(DOMAIN objs) + 1
    IN  [ret |-> id,
         objs |-> objs @@ (id :> [Heap |-> ref, mut |-> "unlocked"])]

\* Concurrent(heap): the Heap[E] returned and the conHeap objects afterwards.
\* The type assertion heap.(*conHeap[E]) succeeds exactly on a wrapper.
Concurrent(ref, objs) ==
    IF ref \in DOMAIN objs
    THEN [ret |-> ref, objs |-> objs]
    ELSE LET id == Cardinality(DOMAIN objs) + 1
         IN  [ret |-> id,
              objs |-> objs @@ (id :> [Heap |-> ref, mut |-> "unlocked"])]

\* ------------------------------------------------- sequential specification
\* One caller uses the heap built by New over any input.  Every call sets
\* lastOp and ret; the calls are not counted here (len0, pushes and removes
\* stay 0) and the decorator is left alone.
counters == <<len0, pushes, removes>>
wrapping == <<handle, conHeaps, wraps>>
sorting  == <<out, toPush, e2, out2>>
draining == <<e0, qpc, pops, stoppedAt>>
calling  == <<pc, loc>>
probing  == <<before, at, held, dn>>

\* The parts of the state a specification does not use.
NoCalls    == lastOp = "New" /\ ret = NoRet
NoCounters == pushes = 0 /\ removes = 0
NoWrapping == handle = 0 /\ conHeaps = << >> /\ wraps = 0
NoSorting  == out = << >> /\ toPush = << >> /\ e2 = << >> /\ out2 = << >>
NoDraining == e0 = << >> /\ qpc = "none" /\ pops = 0 /\ stoppedAt = -1
NoCalling  == pc = << >> /\ loc = << >>
NoProbing  == before = << >> /\ at = -2 /\ held = << >> /\ dn = << >>

Init ==
    /\ \E input \in Inputs : e = New(input)
    /\ len0 = 0
    /\ NoCalls /\ NoCounters /\ NoWrapping /\ NoSorting /\ NoDraining /\ NoCalling /\ NoProbing

CallPush(x) ==
    /\ Len(e) < MaxLen
    /\ e' = Push(e, x)
    /\ lastOp' = "Push"
    /\ ret' = NoRet
    /\ UNCHANGED <<counters, wrapping, sorting, draining, calling, probing>>

CallPop ==
    /\ Len(e) > 0
    /\ e' = Pop(e).e
    /\ ret' = Pop(e).ret
    /\ lastOp' = "Pop"
    /\ UNCHANGED <<counters, wrapping, sorting, draining, calling, probing>>

CallPeek ==
    /\ Len(e) > 0
    /\ ret' = Peek(e)
    /\ lastOp' = "Peek"
    /\ UNCHANGED <<e, counters, wrapping, sorting, draining, calling, probing>>

CallRemove(i) ==
    /\ i \in 0 .. Len(e) - 1
    /\ e' = Remove(e, i).e
    /\ ret' = Remove(e, i).ret
    /\ lastOp' = "Remove"
    /\ UNCHANGED <<counters, wrapping, sorting, draining, calling, probing>>

Next ==
    \/ \E x \in E : CallPush(x)
    \/ CallPop
    \/ CallPeek
    \/ \E i \in 0 .. MaxLen - 1 : CallRemove(i)

Spec == Init /\ [][Next]_vars

\* ---------------------------------------------------- counted specification
\* The same calls, counted, made through the handle the caller holds, which
\* the caller may pass through Concurrent at any time.  conHeap defines no
\* method of its own: a call on a wrapper is the embedded Heap's method.
InitOps ==
    /\ \E input \in Inputs :
           /\ Len(input) <= MaxLen0
           /\ e = New(input)
           /\ len0 = Len(input)
    /\ NoCalls /\ NoCounters /\ NoWrapping /\ NoSorting /\ NoDraining /\ NoCalling /\ NoProbing

CountPush(x) ==
    /\ pushes < MaxPushes
    /\ e' = Push(e, x)
    /\ pushes' = pushes + 1
    /\ UNCHANGED <<lastOp, ret, len0, removes, wrapping, sorting, draining, calling, probing>>

CountPop ==
    /\ Len(e) > 0
    /\ e' = Pop(e).e
    /\ removes' = removes + 1
    /\ UNCHANGED <<lastOp, ret, len0, pushes, wrapping, sorting, draining, calling, probing>>

CountRemove(i) ==
    /\ i \in 0 .. Len(e) - 1
    /\ e' = Remove(e, i).e
    /\ removes' = removes + 1
    /\ UNCHANGED <<lastOp, ret, len0, pushes, wrapping, sorting, draining, calling, probing>>

CallConcurrent ==
    /\ wraps < MaxWraps
    /\ handle' = Concurrent(handle, conHeaps).ret
    /\ conHeaps' = Concurrent(handle, conHeaps).objs
    /\ wraps' = wraps + 1
    /\ UNCHANGED <<e, lastOp, ret, counters, sorting, draining, calling, probing>>

NextOps ==
    \/ \E x \in E : CountPush(x)
    \/ CountPop
    \/ \E i \in 0 .. MaxLen0 + MaxPushes - 1 : CountRemove(i)
    \/ CallConcurrent

SpecOps == InitOps /\ [][NextOps]_vars

\* ------------------------------------------------------ sort specification
\* testNew and testPush on one test case: the heap e is built by New over the
\* input and popped len(input) times; the heap e2 is built empty, the input
\* is pushed onto it one element at a time, and it is popped len(input)
\* times.
InitSort ==
    /\ \E input \in Inputs :
           /\ Len(input) <= MaxSortLen
           /\ e = New(input)
           /\ len0 = Len(input)
           /\ toPush = input
    /\ e2 = New(<< >>)
    /\ out = << >>
    /\ out2 = << >>
    /\ NoCalls /\ NoCounters /\ NoWrapping /\ NoDraining /\ NoCalling /\ NoProbing

\* testNew: out[i] = heap.Pop()
SortPop ==
    /\ Len(out) < len0
    /\ e' = Pop(e).e
    /\ out' = Append(out, Pop(e).ret)
    /\ UNCHANGED <<lastOp, ret, counters, wrapping, toPush, e2, out2, draining, calling, probing>>

\* testPush: heap.Push(v)
SortPush ==
    /\ toPush # << >>
    /\ e2' = Push(e2, Head(toPush))
    /\ toPush' = Tail(toPush)
    /\ UNCHANGED <<e, lastOp, ret, counters, wrapping, out, out2, draining, calling, probing>>

\* testPush: out[i] = heap.Pop()
SortPop2 ==
    /\ toPush = << >>
    /\ Len(out2) < len0
    /\ e2' = Pop(e2).e
    /\ out2' = Append(out2, Pop(e2).ret)
    /\ UNCHANGED <<e, lastOp, ret, counters, wrapping, out, toPush, draining, calling, probing>>

NextSort ==
    \/ SortPop
    \/ SortPush
    \/ SortPop2

SpecSort == InitSort /\ [][NextSort]_vars

\* ----------------------------------------------------- drain specification
\* A consumer ranges over h.Queue() on a heap built by New, and nothing else
\* touches the heap.  qpc is "loop" at the test of the for loop, "yield"
\* while the consumer holds the element handed to yield, and "done" once the
\* function has returned.

\* A loop that ignores what yield returns.
afterYieldIgnored(ok) == "loop"

\* Where the loop goes when yield returns ok: break on false.
afterYield(ok) == IF ~ok THEN "done" ELSE "loop"

InitDrain ==
    /\ \E input \in Inputs :
           /\ Len(input) <= MaxSortLen
           /\ e = New(input)
           /\ e0 = New(input)
           /\ len0 = Len(input)
    /\ qpc = "loop"
    /\ out = << >>
    /\ pops = 0
    /\ stoppedAt = -1
    /\ toPush = << >> /\ e2 = << >> /\ out2 = << >>
    /\ NoCalls /\ NoCounters /\ NoWrapping /\ NoCalling /\ NoProbing

\* for h.Len() > 0 { yield(h.Pop()) ...
QueueStep ==
    /\ qpc = "loop"
    /\ Len(e) > 0
    /\ e' = Pop(e).e
    /\ out' = Append(out, Pop(e).ret)
    /\ pops' = pops + 1
    /\ qpc' = "yield"
    /\ UNCHANGED <<lastOp, ret, counters, wrapping, toPush, e2, out2, e0, stoppedAt, calling, probing>>

\* ... if !yield(...) { break } }: the consumer's loop body returns ok.
YieldReturns(ok) ==
    /\ qpc = "yield"
    /\ qpc' = afterYield(ok)
    /\ stoppedAt' = IF ok THEN stoppedAt ELSE Len(out)
    /\ UNCHANGED <<e, lastOp, ret, counters, wrapping, sorting, e0, pops, calling, probing>>

\* The loop test fails: h.Len() is 0 and the function returns.
QueueExhausted ==
    /\ qpc = "loop"
    /\ Len(e) = 0
    /\ qpc' = "done"
    /\ UNCHANGED <<e, lastOp, ret, counters, wrapping, sorting, e0, pops, stoppedAt, calling, probing>>

NextDrain ==
    \/ QueueStep
    \/ \E ok \in BOOLEAN : YieldReturns(ok)
    \/ QueueExhausted

SpecDrain == InitDrain /\ [][NextDrain]_vars

\* ------------------------------------------------ concurrent specification
\* NumCallers goroutines share the Heap[E] returned by Concurrent(New(input)).
\* conHeap has the fields mut and Heap and no method: each call on the
\* wrapper is the promoted method of the embedded *heap, which runs on the
\* one slice e, and no statement of the package calls mut.Lock.  A call is
\* therefore modelled statement by statement, one step per helper call of
\* the method, and the steps of different callers interleave.  An index
\* outside the slice is Go's run-time panic, which ends the program.
Callers == 1 .. NumCallers

\* The locals of a caller: n and i of Pop, Remove and Fix, the element x
\* pushed or returned, the last Len() it observed, and whether its Pop was
\* called by the function returned by Queue().
IdleLoc == [n |-> 0, i |-> 0, x |-> NoRet, seen |-> 0, q |-> FALSE]

\* h.e[i] is in range.
InRange(s, i) == 0 <= i /\ i < Len(s)

\* h.swap(i, j) panics.
swapFaults(s, i, j) == ~InRange(s, i) \/ ~InRange(s, j)

\* h.up(j) panics.
RECURSIVE upFaults(_, _)
upFaults(s, j) ==
    LET i == Quo(j - 1, 2)
    IN  IF i = j THEN FALSE
        ELSE IF ~InRange(s, j) \/ ~InRange(s, i) THEN TRUE
        ELSE IF ~less(s, j, i) THEN FALSE
        ELSE upFaults(swap(s, i, j), i)

\* h.down(i, n) panics.
RECURSIVE downFaults(_, _, _)
downFaults(s, i, n) ==
    LET j1 == WrapInt(2 * i + 1)
    IN  IF j1 >= n \/ j1 < 0 THEN FALSE
        ELSE LET j2 == j1 + 1
             IN  IF ~InRange(s, j1) \/ ~InRange(s, i) THEN TRUE
                 ELSE IF j2 < n /\ ~InRange(s, j2) THEN TRUE
                 ELSE LET j == IF j2 < n /\ less(s, j2, j1) THEN j2 ELSE j1
                      IN  IF ~less(s, j, i) THEN FALSE
                          ELSE downFaults(swap(s, i, j), j, n)

\* The program runs: no goroutine has panicked.
Running == \A c \in Callers : pc[c] # "panic"

\* A decorator whose Queue() holds mut from its first step to its return:
\* every other caller waits while a drain is under way.
WaitsDuringDrain(c) == \E d \in Callers \ {c} : loc[d].q

\* Caller c has to wait for mut before its next statement.  No method runs
\* mut.Lock, so mut is never held and nobody waits.
Waits(c) == conHeaps[handle].mut # "unlocked"

\* Caller c goes to statement label with locals lc.
Goto(c, label, lc) ==
    /\ ~Waits(c)
    /\ pc' = [pc EXCEPT ![c] = label]
    /\ loc' = [loc EXCEPT ![c] = lc]

\* Caller c returns to its own code with the element x, which it drops.
Return(c, x) == Goto(c, "idle", IdleLoc)

quiet == <<lastOp, ret, counters, wrapping, sorting, draining, probing>>

InitCon ==
    /\ \E input \in Inputs :
           /\ Len(input) <= MaxConLen
           /\ e = New(input)
           /\ len0 = Len(input)
    /\ handle = Concurrent(0, << >>).ret
    /\ conHeaps = Concurrent(0, << >>).objs
    /\ wraps = 1
    /\ pc = [c \in Callers |-> "idle"]
    /\ loc = [c \in Callers |-> IdleLoc]
    /\ NoCalls /\ NoCounters /\ NoSorting /\ NoDraining /\ NoProbing

\* Len(): one read of the slice header.
ConLen(c) ==
    /\ Running /\ pc[c] = "idle"
    /\ Goto(c, "idle", [IdleLoc EXCEPT !.seen = Len(e)])
    /\ UNCHANGED <<e, quiet>>

\* Peek(): one read; the caller has seen Len() > 0.
ConPeek(c) ==
    /\ Running /\ pc[c] = "idle" /\ loc[c].seen > 0
    /\ IF Len(e) = 0
       THEN Goto(c, "panic", IdleLoc)
       ELSE Return(c, Peek(e))
    /\ UNCHANGED <<e, quiet>>

\* The caller calls Push(x).
EnterPush(c, x) ==
    /\ Running /\ pc[c] = "idle"
    /\ Len(e) < MaxConLen
    /\ Goto(c, "push_append", [IdleLoc EXCEPT !.x = x])
    /\ UNCHANGED <<e, quiet>>

\* h.e = append(h.e, x)
PushAppend(c) ==
    /\ Running /\ pc[c] = "push_append"
    /\ e' = Append(e, loc[c].x)
    /\ Goto(c, "push_up", loc[c])
    /\ UNCHANGED quiet

\* h.up(h.Len() - 1)
PushUp(c) ==
    /\ Running /\ pc[c] = "push_up"
    /\ IF upFaults(e, Len(e) - 1)
       THEN Goto(c, "panic", IdleLoc) /\ UNCHANGED e
       ELSE e' = up(e, Len(e) - 1) /\ Return(c, NoRet)
    /\ UNCHANGED quiet

\* The caller calls Pop() after it has seen Len() > 0.
EnterPop(c) ==
    /\ Running /\ pc[c] = "idle" /\ loc[c].seen > 0
    /\ Goto(c, "pop_len", IdleLoc)
    /\ UNCHANGED <<e, quiet>>

\* Pop: n := h.Len() - 1
PopLen(c) ==
    /\ Running /\ pc[c] = "pop_len"
    /\ Goto(c, "pop_swap", [loc[c] EXCEPT !.n = Len(e) - 1])
    /\ UNCHANGED <<e, quiet>>

\* Pop: h.swap(0, n)
PopSwap(c) ==
    /\ Running /\ pc[c] = "pop_swap"
    /\ IF swapFaults(e, 0, loc[c].n)
       THEN Goto(c, "panic", IdleLoc) /\ UNCHANGED e
       ELSE e' = swap(e, 0, loc[c].n) /\ Goto(c, "pop_down", loc[c])
    /\ UNCHANGED quiet

\* Pop: h.down(0, n)
PopDown(c) ==
    /\ Running /\ pc[c] = "pop_down"
    /\ IF downFaults(e, 0, loc[c].n)
       THEN Goto(c, "panic", IdleLoc) /\ UNCHANGED e
       ELSE e' = down(e, 0, loc[c].n).e /\ Goto(c, "pop", loc[c])
    /\ UNCHANGED quiet

\* Pop and Remove: return h.pop(); a Pop of Queue() hands the element to yield.
PopReturn(c) ==
    /\ Running /\ pc[c] = "pop"
    /\ IF Len(e) = 0
       THEN Goto(c, "panic", IdleLoc) /\ UNCHANGED e
       ELSE /\ e' = pop(e).e
            /\ IF loc[c].q
               THEN Goto(c, "q_yield", [IdleLoc EXCEPT !.x = pop(e).ret, !.q = TRUE])
               ELSE Return(c, pop(e).ret)
    /\ UNCHANGED quiet

\* The caller calls Remove(i) after it has seen Len() > i.
EnterRemove(c, i) ==
    /\ Running /\ pc[c] = "idle" /\ i < loc[c].seen
    /\ Goto(c, "rm_len", [IdleLoc EXCEPT !.i = i])
    /\ UNCHANGED <<e, quiet>>

\* Remove: n := h.Len() - 1; if n != i
RemoveLen(c) ==
    /\ Running /\ pc[c] = "rm_len"
    /\ Goto(c, IF Len(e) - 1 # loc[c].i THEN "rm_swap" ELSE "pop",
             [loc[c] EXCEPT !.n = Len(e) - 1])
    /\ UNCHANGED <<e, quiet>>

\* Remove: h.swap(i, n)
RemoveSwap(c) ==
    /\ Running /\ pc[c] = "rm_swap"
    /\ IF swapFaults(e, loc[c].i, loc[c].n)
       THEN Goto(c, "panic", IdleLoc) /\ UNCHANGED e
       ELSE e' = swap(e, loc[c].i, loc[c].n) /\ Goto(c, "rm_down", loc[c])
    /\ UNCHANGED quiet

\* Remove: if !h.down(i, n)
RemoveDown(c) ==
    /\ Running /\ pc[c] = "rm_down"
    /\ IF downFaults(e, loc[c].i, loc[c].n)
       THEN Goto(c, "panic", IdleLoc) /\ UNCHANGED e
       ELSE /\ e' = down(e, loc[c].i, loc[c].n).e
            /\ Goto(c, IF ~down(e, loc[c].i, loc[c].n).moved THEN "rm_up" ELSE "pop",
                     loc[c])
    /\ UNCHANGED quiet

\* Remove: h.up(i)
RemoveUp(c) ==
    /\ Running /\ pc[c] = "rm_up"
    /\ IF upFaults(e, loc[c].i)
       THEN Goto(c, "panic", IdleLoc) /\ UNCHANGED e
       ELSE e' = up(e, loc[c].i) /\ Goto(c, "pop", loc[c])
    /\ UNCHANGED quiet

\* The caller calls Fix(i) after it has seen Len() > i.
EnterFix(c, i) ==
    /\ Running /\ pc[c] = "idle" /\ i < loc[c].seen
    /\ Goto(c, "fix_down", [IdleLoc EXCEPT !.i = i])
    /\ UNCHANGED <<e, quiet>>

\* Fix: if !h.down(i, h.Len())
FixDown(c) ==
    /\ Running /\ pc[c] = "fix_down"
    /\ IF downFaults(e, loc[c].i, Len(e))
       THEN Goto(c, "panic", IdleLoc) /\ UNCHANGED e
       ELSE /\ e' = down(e, loc[c].i, Len(e)).e
            /\ IF ~down(e, loc[c].i, Len(e)).moved
               THEN Goto(c, "fix_up", loc[c])
               ELSE Return(c, NoRet)
    /\ UNCHANGED quiet

\* Fix: h.up(i)
FixUp(c) ==
    /\ Running /\ pc[c] = "fix_up"
    /\ IF upFaults(e, loc[c].i)
       THEN Goto(c, "panic", IdleLoc) /\ UNCHANGED e
       ELSE e' = up(e, loc[c].i) /\ Return(c, NoRet)
    /\ UNCHANGED quiet

\* The caller ranges over Queue().
EnterQueue(c) ==
    /\ Running /\ pc[c] = "idle"
    /\ Goto(c, "q_loop", [IdleLoc EXCEPT !.q = TRUE])
    /\ UNCHANGED <<e, quiet>>

\* Queue: for h.Len() > 0 { ... h.Pop() ...
QueueLoop(c) ==
    /\ Running /\ pc[c] = "q_loop"
    /\ IF Len(e) > 0
       THEN Goto(c, "pop_len", [IdleLoc EXCEPT !.q = TRUE])
       ELSE Return(c, NoRet)
    /\ UNCHANGED <<e, quiet>>

\* Queue: if !yield(...) { break }
QueueYield(c, ok) ==
    /\ Running /\ pc[c] = "q_yield"
    /\ IF afterYield(ok) = "loop"
       THEN Goto(c, "q_loop", [IdleLoc EXCEPT !.q = TRUE])
       ELSE Return(c, NoRet)
    /\ UNCHANGED <<e, quiet>>

\* The steps of caller c.
CallerStep(c) ==
    \/ ConLen(c)
    \/ ConPeek(c)
    \/ \E x \in E : EnterPush(c, x)
    \/ PushAppend(c)
    \/ PushUp(c)
    \/ EnterPop(c)
    \/ PopLen(c)
    \/ PopSwap(c)
    \/ PopDown(c)
    \/ PopReturn(c)
    \/ \E i \in 0 .. MaxConLen : EnterRemove(c, i)
    \/ RemoveLen(c)
    \/ RemoveSwap(c)
    \/ RemoveDown(c)
    \/ RemoveUp(c)
    \/ \E i \in 0 .. MaxConLen : EnterFix(c, i)
    \/ FixDown(c)
    \/ FixUp(c)
    \/ EnterQueue(c)
    \/ QueueLoop(c)
    \/ \E ok \in BOOLEAN : QueueYield(c, ok)

NextCon == \E c \in Callers : CallerStep(c)

SpecCon == InitCon /\ [][NextCon]_vars

\* A caller is inside an operation on the underlying heap: it has entered a
\* method of the heap and has not returned from it.
Inside(c) == pc[c] \notin {"idle", "q_loop", "q_yield", "panic"}

\* -------------------------------------------------------- call specification
\* One caller and every exported call, each recorded with the slice it was
\* made on (before) and its index (at).  The run starts inside New, at the
\* struct literal &heap{e: e, l: less} over the caller's slice, before
\* Init(h) has run; Init can be called again at any time.  The slice is the
\* caller's own, and before Fix(i) the caller overwrites its element i.
\* Pop, Peek and Remove are also called on the empty heap, where an index
\* outside the slice is Go's run-time panic, which ends the program.

\* What a call that panicked returns: nothing.
Panic == <<0, "panic">>

\* h.Peek() panics.
PeekFaults(s) == ~InRange(s, Len(s) - 1)

\* h.Pop() panics: h.swap(0, n) is its first access to the slice, and with
\* both indices in range nothing after it is out of range.
PopFaults(s) == swapFaults(s, 0, Len(s) - 1)

\* h.Remove(i) panics.
RemoveFaults(s, i) ==
    LET n == Len(s) - 1
    IN  IF n # i THEN swapFaults(s, i, n) ELSE PeekFaults(s)

\* A Peek that returns the zero value of E on the empty heap.
PeekOrZero(s) ==
    IF Len(s) = 0 THEN [e |-> s, ret |-> NoRet] ELSE [e |-> s, ret |-> Peek(s)]

\* Peek called on any heap: the slice afterwards and what is returned.
DoPeek(s) ==
    IF PeekFaults(s) THEN [e |-> s, ret |-> Panic] ELSE [e |-> s, ret |-> Peek(s)]

\* Pop called on any heap.
DoPop(s) == IF PopFaults(s) THEN [e |-> s, ret |-> Panic] ELSE Pop(s)

\* Remove(i) called on any heap.
DoRemove(s, i) == IF RemoveFaults(s, i) THEN [e |-> s, ret |-> Panic] ELSE Remove(s, i)

\* The multiset held after a call that returned r.
Without(b, r) == IF r = Panic THEN b ELSE b (-) SetToBag({r})

\* The program runs and New has returned.
Alive == ret # Panic /\ lastOp # "alloc"

apiQuiet == <<counters, wrapping, sorting, draining, calling, dn>>

InitApi ==
    /\ \E input \in Inputs :
           /\ Len(input) <= MaxSortLen
           /\ e = input
           /\ held = BagOf(input)
    /\ lastOp = "alloc"
    /\ ret = NoRet
    /\ before = << >>
    /\ at = -2
    /\ dn = << >>
    /\ len0 = 0
    /\ NoCounters /\ NoWrapping /\ NoSorting /\ NoDraining /\ NoCalling

\* Init(h), in New and after it.
ApiInit ==
    /\ ret # Panic
    /\ before' = e
    /\ e' = Heapify(e)
    /\ lastOp' = "Init"
    /\ ret' = NoRet
    /\ at' = -2
    /\ UNCHANGED <<held, apiQuiet>>

ApiPush(x) ==
    /\ Alive
    /\ Len(e) < MaxSortLen
    /\ before' = e
    /\ e' = Push(e, x)
    /\ held' = held (+) SetToBag({x})
    /\ lastOp' = "Push"
    /\ ret' = NoRet
    /\ at' = -2
    /\ UNCHANGED apiQuiet

ApiPop ==
    /\ Alive
    /\ before' = e
    /\ e' = DoPop(e).e
    /\ ret' = DoPop(e).ret
    /\ held' = Without(held, DoPop(e).ret)
    /\ lastOp' = "Pop"
    /\ at' = -2
    /\ UNCHANGED apiQuiet

ApiPeek ==
    /\ Alive
    /\ before' = e
    /\ ret' = DoPeek(e).ret
    /\ lastOp' = "Peek"
    /\ at' = -2
    /\ UNCHANGED <<e, held, apiQuiet>>

\* Remove(i): any index of the heap, and a few indices on the empty heap.
ApiRemove(i) ==
    /\ Alive
    /\ IF Len(e) = 0 THEN i \in -1 .. 1 ELSE i \in 0 .. Len(e) - 1
    /\ before' = e
    /\ e' = DoRemove(e, i).e
    /\ ret' = DoRemove(e, i).ret
    /\ held' = Without(held, DoRemove(e, i).ret)
    /\ lastOp' = "Remove"
    /\ at' = i
    /\ UNCHANGED apiQuiet

\* The caller writes v at index i of its slice, then calls Fix(i).
ApiFix(i, v) ==
    /\ Alive
    /\ i \in 0 .. Len(e) - 1
    /\ before' = [e EXCEPT ![i + 1] = v]
    /\ e' = Fix([e EXCEPT ![i + 1] = v], i)
    /\ held' = (held (-) SetToBag({e[i + 1]})) (+) SetToBag({v})
    /\ lastOp' = "Fix"
    /\ ret' = NoRet
    /\ at' = i
    /\ UNCHANGED apiQuiet

NextApi ==
    \/ ApiInit
    \/ \E x \in E : ApiPush(x)
    \/ ApiPop
    \/ ApiPeek
    \/ \E i \in -1 .. MaxSortLen - 1 : ApiRemove(i)
    \/ \E i \in 0 .. MaxSortLen - 1 : \E v \in E : ApiFix(i, v)

SpecApi == InitApi /\ [][NextApi]_vars

\* ------------------------------------------------ sift-down, step by step
\* h.down(i0, n) one statement at a time on a slice of any length up to the
\* largest int, with the index arithmetic in IntWidth-bit wrap-around.  The
\* elements are left out: each h.less may answer either way, which covers
\* every slice content.  dn holds the locals of down, its next statement
\* (stmt) and the slice indices its last statement read or wrote (acc).

MaxInt == (2 ^ (IntWidth - 1)) - 1

\* A loop test without the overflow guard.
downBreaksAtEndOnly(j1, n) == j1 >= n

\* down: if j1 >= n || j1 < 0 { break }
downBreaks(j1, n) == j1 >= n \/ j1 < 0

\* The indices of a slice of length n: len(h.e) >= n whenever down runs.
Indices(n) == 0 .. n - 1

\* down's next statement after one that accessed the indices a.
AfterAccess(a, n, label) == IF a \subseteq Indices(n) THEN label ELSE "panic"

downQuiet == <<e, lastOp, ret, counters, wrapping, sorting, draining, calling,
               before, at, held>>

InitDown ==
    /\ \E n \in 0 .. MaxInt : \E i0 \in 0 .. n :
           dn = [stmt |-> "child", i0 |-> i0, n |-> n, i |-> i0,
                 j1 |-> 0, j |-> 0, acc |-> {}]
    /\ e = << >>
    /\ len0 = 0
    /\ before = << >> /\ at = -2 /\ held = << >>
    /\ NoCalls /\ NoCounters /\ NoWrapping /\ NoSorting /\ NoDraining /\ NoCalling

\* j1 := 2*i + 1
DownChild ==
    /\ dn.stmt = "child"
    /\ dn' = [dn EXCEPT !.stmt = "test", !.j1 = WrapInt(2 * dn.i + 1), !.acc = {}]
    /\ UNCHANGED downQuiet

\* if j1 >= n || j1 < 0 { break }
DownTest ==
    /\ dn.stmt = "test"
    /\ dn' = [dn EXCEPT !.stmt = IF downBreaks(dn.j1, dn.n) THEN "return" ELSE "pick",
                        !.acc = {}]
    /\ UNCHANGED downQuiet

\* j := j1; if j2 := j1 + 1; j2 < n && h.less(j2, j1) { j = j2 }
DownPick(isLess) ==
    /\ dn.stmt = "pick"
    /\ LET j2 == WrapInt(dn.j1 + 1)
           a  == IF j2 < dn.n THEN {j2, dn.j1} ELSE {}
       IN  dn' = [dn EXCEPT !.stmt = AfterAccess(a, dn.n, "compare"),
                           !.j = IF j2 < dn.n /\ isLess THEN j2 ELSE dn.j1,
                           !.acc = a]
    /\ UNCHANGED downQuiet

\* if !h.less(j, i) { break }
DownCompare(isLess) ==
    /\ dn.stmt = "compare"
    /\ LET a == {dn.j, dn.i}
       IN  dn' = [dn EXCEPT !.stmt = AfterAccess(a, dn.n, IF isLess THEN "swap" ELSE "return"),
                           !.acc = a]
    /\ UNCHANGED downQuiet

\* h.swap(i, j); i = j
DownSwap ==
    /\ dn.stmt = "swap"
    /\ LET a == {dn.i, dn.j}
       IN  dn' = [dn EXCEPT !.stmt = AfterAccess(a, dn.n, "child"),
                           !.i = dn.j,
                           !.acc = a]
    /\ UNCHANGED downQuiet

\* return i > i0
DownReturn ==
    /\ dn.stmt = "return"
    /\ dn' = [dn EXCEPT !.stmt = "done", !.acc = {}]
    /\ UNCHANGED downQuiet

NextDown ==
    \/ DownChild
    \/ DownTest
    \/ \E isLess \in BOOLEAN : DownPick(isLess)
    \/ \E isLess \in BOOLEAN : DownCompare(isLess)
    \/ DownSwap
    \/ DownReturn

SpecDown == InitDown /\ [][NextDown]_vars

\* ------------------------------------------------------------------ claims
\* C1: the slice of the heap returned by New, and after any sequence of Push,
\* Pop and Remove(i) with 0 <= i < Len, is heap-ordered: no child at 2i+1 or
\* 2i+2 is less than its parent at i.
HeapInvariant == HeapOrdered(e)

\* C1 witness: a Remove in the middle of a heap of MaxLen elements has acted.
HeapInvariantWitness ==
    /\ lastOp = "Remove"
    /\ Len(e) = MaxLen - 1
    /\ ret # Peek(e)
    /\ \E i \in 1 .. Len(e) : l(e[1], e[i])

\* C2: a Pop on a non-empty heap returns an element that no element held
\* before the call is less than, and removes exactly that one element: Len
\* drops by 1 and the contents lose one occurrence of the returned element.
PopReturnsMinimum ==
    [][lastOp' = "Pop" =>
          /\ \A i \in 1 .. Len(e) : ~l(e[i], ret')
          /\ Len(e') = Len(e) - 1
          /\ BagOf(e') (+) SetToBag({ret'}) = BagOf(e)]_vars

\* C2 witness: a Pop has returned from a heap that held several keys.
PopReturnsMinimumWitness ==
    /\ lastOp = "Pop"
    /\ Len(e) >= 3
    /\ \E i \in 1 .. Len(e) : l(ret, e[i])

\* C3: a Peek on a non-empty heap returns a minimum: no element of the heap
\* is less than the element returned.
PeekReturnsMinimum ==
    lastOp = "Peek" => \A i \in 1 .. Len(e) : ~l(e[i], ret)

\* C6: Len equals the initial length plus the Push calls minus the Pop and
\* Remove calls.
LengthInvariant == Len(e) = len0 + pushes - removes

\* C6 witness: pushes and removals have both happened on a non-empty start.
LengthInvariantWitness ==
    /\ len0 >= 1
    /\ pushes >= 2
    /\ removes >= 2
    /\ Len(e) >= 1

\* C8: once Concurrent has been applied, every further application returns
\* the same instance: there is exactly one wrapper (one lock), it is the
\* handle, and its embedded Heap is the plain heap, never a wrapper.
IdempotentWrap ==
    wraps >= 1 =>
        /\ handle = 1
        /\ DOMAIN conHeaps = {1}
        /\ conHeaps[1].Heap = 0
        /\ conHeaps[1].Heap \notin DOMAIN conHeaps

\* C8 witness: Concurrent has been applied to what Concurrent returned.
IdempotentWrapWitness == wraps >= 2 /\ handle \in DOMAIN conHeaps

\* The keys of a sequence of elements.
KeysOf(s) == [i \in 1 .. Len(s) |-> s[i][1]]

\* C4: the successive Pops from New(input) come out non-decreasing under the
\* comparator, and Len is 0 after exactly len(input) Pops, positive before.
HeapSort ==
    /\ NonDecreasing(out)
    /\ Len(out) = len0 => Len(e) = 0
    /\ Len(out) < len0 => Len(e) > 0

\* C4 witness: an input of MaxSortLen elements with two keys was popped out.
HeapSortWitness ==
    /\ Len(out) = len0
    /\ len0 = MaxSortLen
    /\ \E i \in 1 .. Len(out) : l(out[1], out[i])

\* C5, as stated: the drain of the heap built by Push is the same sequence of
\* elements as the drain of the heap built by New.
PushOrderingSameSequence ==
    (Len(out) = len0 /\ Len(out2) = len0) => out2 = out

\* C5, amended: the two drains are both non-decreasing, hold the same
\* elements, and agree key by key; they can differ in the order of elements
\* that are equivalent under the comparator.
PushOrdering ==
    (Len(out) = len0 /\ Len(out2) = len0) =>
        /\ NonDecreasing(out2)
        /\ NonDecreasing(out)
        /\ BagOf(out2) = BagOf(out)
        /\ KeysOf(out2) = KeysOf(out)

\* C5 witness: both heaps of a MaxSortLen input with two keys were drained.
PushOrderingWitness ==
    /\ Len(out) = len0
    /\ Len(out2) = len0
    /\ len0 = MaxSortLen
    /\ \E i \in 1 .. Len(out2) : l(out2[1], out2[i])

\* C9: a consumer that never stops gets one element per Pop, in
\* non-decreasing order; the iteration can always go on until it ends, and
\* when it ends it has yielded all len0 elements of the heap and Len is 0.
FullDrain ==
    stoppedAt = -1 =>
        /\ pops = Len(out)
        /\ pops <= len0
        /\ NonDecreasing(out)
        /\ qpc # "done" => ENABLED NextDrain
        /\ qpc = "done" =>
              /\ Len(out) = len0
              /\ BagOf(out) = BagOf(e0)
              /\ Len(e) = 0

\* C9 witness: a heap of MaxSortLen elements with two keys was drained to
\* the end.
FullDrainWitness ==
    /\ qpc = "done"
    /\ stoppedAt = -1
    /\ len0 = MaxSortLen
    /\ \E i \in 1 .. Len(out) : l(out[1], out[i])

\* C10: once the consumer has stopped after k elements, exactly k Pops have
\* been made and no step changes the heap any more; Len is len0 - k and the
\* heap holds the elements not yielded, heap-ordered.
EarlyStop ==
    stoppedAt >= 1 =>
        /\ stoppedAt <= len0
        /\ pops = stoppedAt
        /\ Len(out) = stoppedAt
        /\ Len(e) = len0 - stoppedAt
        /\ BagOf(e) (+) BagOf(out) = BagOf(e0)
        /\ HeapOrdered(e)
        /\ ~ENABLED QueueStep

\* C10 witness: the consumer stopped with elements of two keys left.
EarlyStopWitness ==
    /\ stoppedAt >= 2
    /\ Len(e) >= 2
    /\ l(e[1], e[Len(e)])

\* C7: on the heap returned by Concurrent, at most one caller at a time is
\* inside an operation on the underlying heap.
MutualExclusion ==
    handle \in DOMAIN conHeaps =>
        Cardinality({c \in Callers : Inside(c)}) <= 1

\* C11: while a consumer of the drain is paused between two steps, holding
\* the element handed to yield, or has left the drain, mut is not held and
\* no other caller is kept waiting: as long as the program runs, every other
\* caller can take its next step, be it a new call or the next statement of
\* the operation it is in.
NoDeadlockFromDrain ==
    \A c \in Callers :
        (Running /\ pc[c] \in {"q_yield", "idle"}) =>
            /\ conHeaps[handle].mut = "unlocked"
            /\ \A d \in Callers \ {c} : ENABLED CallerStep(d)

\* C11 witness: a consumer holds a yielded element while another caller is
\* in the middle of a Pop.
NoDeadlockFromDrainWitness ==
    \E c \in Callers : \E d \in Callers \ {c} :
        /\ pc[c] = "q_yield"
        /\ pc[d] = "pop_down"
        /\ ~loc[d].q

\* C12: after the caller overwrote the element at index at of a heap-ordered
\* slice and called Fix(at), the slice is as long as before, holds the same
\* elements as the overwritten slice, and is heap-ordered at every index.
FixCorrect ==
    lastOp = "Fix" =>
        /\ Len(e) = Len(before)
        /\ BagOf(e) = BagOf(before)
        /\ HeapOrdered(e)

\* C12 witness: Fix has moved the element written at index 3 up to the root.
FixCorrectWitness ==
    /\ lastOp = "Fix"
    /\ at = 3
    /\ l(before[4], before[1])
    /\ e[1] = before[4]

\* C13: Remove(at) on a non-empty heap returns the element that was at index
\* at before the call, and the heap afterwards holds the other elements:
\* the prior multiset minus one occurrence of the returned element.
RemoveReturnsIndexed ==
    (lastOp = "Remove" /\ Len(before) > 0) =>
        /\ ret = before[at + 1]
        /\ Len(e) = Len(before) - 1
        /\ BagOf(e) (+) SetToBag({ret}) = BagOf(before)

\* C13 witness: Remove(1) on a heap of four elements returned an element
\* that was neither the root nor the last one.
RemoveReturnsIndexedWitness ==
    /\ lastOp = "Remove"
    /\ at = 1
    /\ Len(before) = 4
    /\ ret = before[2]
    /\ ret # before[1]
    /\ ret # before[4]

\* C14: on every non-empty heap Pop and Remove(0) return the same element
\* and leave the same backing array.
PopIsRemoveZero ==
    /\ (lastOp = "Remove" /\ at = 0 /\ Len(before) > 0) =>
           /\ ret = Pop(before).ret
           /\ e = Pop(before).e
    /\ (lastOp = "Pop" /\ Len(before) > 0) =>
           /\ ret = Remove(before, 0).ret
           /\ e = Remove(before, 0).e

\* C14 witness: Remove(0) on a heap of four elements, where the element
\* swapped to the root was sifted down again.
PopIsRemoveZeroWitness ==
    /\ lastOp = "Remove"
    /\ at = 0
    /\ Len(before) = 4
    /\ e[1] # before[4]

\* C15: Init turns every array into a heap-ordered permutation of it, leaves
\* an array that is already heap-ordered unchanged, and so gives the same
\* array when applied twice as when applied once.
InitIdempotent ==
    lastOp = "Init" =>
        /\ HeapOrdered(e)
        /\ BagOf(e) = BagOf(before)
        /\ HeapOrdered(before) => e = before
        /\ Heapify(e) = e

\* C15 witness: Init has run on a heap-ordered array of four elements in
\* which a parent and its child have equal keys and are different elements.
InitIdempotentWitness ==
    /\ lastOp = "Init"
    /\ Len(before) = 4
    /\ HeapOrdered(before)
    /\ before[1][1] = before[2][1]
    /\ before[1] # before[2]

\* C16: Pop, Peek and Remove(i) called on an empty heap return nothing: each
\* ends in the out-of-range panic, and the heap is still empty afterwards.
EmptyHeapFaults ==
    (lastOp \in {"Pop", "Peek", "Remove"} /\ Len(before) = 0) =>
        /\ ret = Panic
        /\ Len(e) = 0

\* C16 witness: Remove(-1) on the empty heap, the call in which n = i and
\* the panic comes from pop's Peek, not from swap.
EmptyHeapFaultsWitness ==
    /\ lastOp = "Remove"
    /\ at = -1
    /\ Len(before) = 0
    /\ ret = Panic

\* C17: the heap holds the input, plus what was pushed, minus what Pop and
\* Remove returned (held); nothing is duplicated, lost or altered, so once the
\* heap is empty everything inserted has been returned.
ElementConservation ==
    /\ BagOf(e) = held
    /\ Len(e) = BagCardinality(held)

\* C17 witness: Pop returned an element and left three, two of them equal.
ElementConservationWitness ==
    /\ lastOp = "Pop"
    /\ ret # Panic
    /\ Len(e) = 3
    /\ e[2] = e[3]
    /\ BagOf(e) = held

\* C18: while a caller drains a wrapped heap with Queue() and other callers
\* call Pop after seeing Len() > 0, the Pop of a drain step never runs on an
\* empty heap: the heap it works on is as non-empty as its loop test saw it.
DrainPopsNonEmpty ==
    \A c \in Callers :
        (loc[c].q /\ pc[c] \in {"pop_len", "pop_swap"}) => Len(e) > 0

\* C19: in down(i0, n) with 0 <= i0 < n <= the largest int and wrap-around
\* arithmetic, each computed left-child index j1 is exactly 2*i + 1 or is
\* negative; past the loop test j1 is the exact index and below n, so j1 + 1
\* does not overflow; and no statement reads or swaps an index outside [0, n).
OverflowGuard ==
    dn.i0 < dn.n =>
        /\ dn.stmt # "panic"
        /\ dn.acc \subseteq Indices(dn.n)
        /\ dn.i \in Indices(dn.n)
        /\ dn.stmt = "test" => (dn.j1 = 2 * dn.i + 1 \/ dn.j1 < 0)
        /\ dn.stmt \in {"pick", "compare", "swap"} =>
               /\ dn.j1 = 2 * dn.i + 1
               /\ dn.j1 < dn.n
               /\ WrapInt(dn.j1 + 1) = dn.j1 + 1
        /\ dn.stmt \in {"compare", "swap"} => dn.j \in {dn.j1, dn.j1 + 1} \cap Indices(dn.n)

\* C19 witness: down has swapped at least once and then left the loop on a
\* left-child index that wrapped around to a negative number.
OverflowGuardWitness ==
    /\ dn.i0 < dn.n
    /\ dn.stmt = "return"
    /\ dn.i > dn.i0
    /\ dn.j1 < 0
    /\ 2 * dn.i + 1 > MaxInt

====
